---- MODULE Spec2Model ----
(***************************************************************************)
(* Model of nonebot-adapter-mail: the Bot's IMAP session operations        *)
(* (bot.py) and the Message / MessageSegment concatenation (message.py).   *)
(*                                                                          *)
(* Eight specifications share the module:                                   *)
(*   Spec        the Bot's session operations: login, logout,               *)
(*               select_mailbox, get_unseen_uids, get_mail_of_uid,          *)
(*               get_mail_of_id_in_mailbox and get_mail_of_id, one step per *)
(*               await;                                                     *)
(*   SpecEvent   handle_event with _check_to_me and _check_reply;           *)
(*   SpecSelect  select_mailbox applied to bounded mailbox names, bare and  *)
(*               wrapped in quotes;                                         *)
(*   SpecUnseen  get_unseen_uids applied to bounded server responses;       *)
(*   SpecMsg     the + operator on Message, MessageSegment and str;         *)
(*   SpecSend    send and send_mail, with the answers of the SMTP transport;*)
(*   SpecCycle   one polling cycle after another on a logged-in session;    *)
(*   SpecConc    two tasks calling get_mail_of_id and handle_event on the   *)
(*               same Bot.                                                  *)
(***************************************************************************)
EXTENDS Naturals, Sequences, FiniteSets

VARIABLES
    imap_client,        \* Bot.imap_client: "None" | "NoProtocol" | "Ready"
    conn,               \* session state on the connection:
                        \* "NONE" | "NONAUTH" | "AUTH" | "SELECTED" |
                        \* "LOGOUT"
    selected,           \* mailbox selected on the connection, or NoMailbox
    store,              \* the mailboxes that hold the mail with the Message-ID
    op,                 \* the public operation in progress or last finished
    pc,                 \* position inside the operation: "idle" between
                        \* calls, "done" when it has returned or raised
    mbox,               \* parameter `mailbox` of get_mail_of_id_in_mailbox
    stage,              \* where get_mail_of_id is: "inbox" | "sent"
    sent_mailbox_list,  \* get_mail_of_id: the Sent mailboxes still to try
    mail_uid,           \* get_mail_of_id_in_mailbox: the UID string to fetch
    mail,               \* get_mail_of_id: local variable `mail`
    cmds,               \* commands the operation in progress has issued,
                        \* each with the result the server gave
    listed,             \* lines of the LIST response of this call, or NotListed
    pre_selected,       \* `selected` when the operation was invoked
    pre_conn,           \* `conn` when the operation was invoked
    outcome,            \* how the last operation ended
    event,              \* the event handle_event is working on
    dispatched,         \* times nonebot's handle_event was called for `event`
    resp,               \* the last server response handed to the Bot
    sel_name,           \* SpecSelect: the mailbox name under test
    sel_args,           \* SpecSelect: the SELECT arguments sent so far
    m_in,               \* SpecMsg: the operands as constructed
    m_a, m_b, m_c,      \* SpecMsg: the operand objects
    m_ab, m_bc,         \* SpecMsg: a + b, b + c
    m_ab_c, m_a_bc,     \* SpecMsg: (a + b) + c, a + (b + c)
    checked,            \* times the correlation checks were entered for `event`
    send_args,          \* SpecSend: the arguments of the send in progress
    document,           \* send_mail: local variable `_message`
    submitted,          \* the documents handed to aiosmtplib.send by this call
    smtp_out,           \* what aiosmtplib.send did: its return value or exception
    failure,            \* the mapping an ActionFailed raised by send_mail carries
    cyc,                \* SpecCycle: where the polling cycle is
    todo,               \* SpecCycle: the unseen UIDs still to fetch
    inbox_ok,           \* SpecCycle: the server refused no SELECT of INBOX
    parked,             \* SpecConc: the task that is not running, as it was
                        \* when it last awaited
    turn                \* SpecConc: the task that is running, 1 or 2

botVars == <<imap_client, conn, selected, store, op, pc, mbox, stage,
             sent_mailbox_list, mail_uid, mail, cmds, listed, pre_selected,
             pre_conn, outcome, event, dispatched, resp, checked>>
selVars == <<sel_name, sel_args>>
msgVars == <<m_in, m_a, m_b, m_c, m_ab, m_bc, m_ab_c, m_a_bc>>
sendVars == <<send_args, document, submitted, smtp_out, failure>>
cycVars == <<cyc, todo, inbox_ok>>
concVars == <<parked, turn>>
vars == <<botVars, selVars, msgVars, sendVars, cycVars, concVars>>

-----------------------------------------------------------------------------
(* Bounds *)

\* longest mailbox name (in characters) select_mailbox is tried on
MaxNameLen == 3
\* most lines of a LIST response besides its status line
MaxList == 2
\* most lines of an UNSEEN search response
MaxLines == 2
\* longest line (in bytes) of an UNSEEN search response
MaxLineLen == 2
\* most segments of a Message operand
MaxMsgLen == 2

-----------------------------------------------------------------------------
(* Strings: a str is a sequence of one-character strings, a bytes object a  *)
(* sequence of byte values.                                                 *)

QUOTE == "\""
SPACE == " "

RECURSIVE SeqsUpTo(_, _)
SeqsUpTo(S, n) ==
    IF n = 0 THEN {<<>>}
    ELSE LET shorter == SeqsUpTo(S, n - 1)
         IN  shorter \cup {Append(s, x) : s \in {t \in shorter : Len(t) = n - 1}, x \in S}

\* str.startswith('"') and str.endswith('"')
StartsWithQuote(s) == Len(s) >= 1 /\ s[1] = QUOTE
EndsWithQuote(s) == Len(s) >= 1 /\ s[Len(s)] = QUOTE
\* s[1:-1]
Slice1m1(s) == SubSeq(s, 2, Len(s) - 1)
\* " " in s
HasSpace(s) == \E i \in 1..Len(s) : s[i] = SPACE
\* f'"{s}"'
Quoted(s) == <<QUOTE>> \o s \o <<QUOTE>>

\* bytes.decode(): every byte below 128 is the character of that code; a byte
\* of 128 or more that is no well-formed UTF-8 sequence raises
DecodeError == <<"UnicodeDecodeError">>
CharOf(b) ==
    IF b = 32 THEN SPACE ELSE IF b = 49 THEN "1" ELSE IF b = 50 THEN "2"
    ELSE IF b = 79 THEN "O" ELSE IF b = 75 THEN "K" ELSE "?"
Decode(bs) ==
    IF \E i \in 1..Len(bs) : bs[i] >= 128 THEN DecodeError
    ELSE [i \in 1..Len(bs) |-> CharOf(bs[i])]

\* str.split(): the maximal runs of non-whitespace characters, in order
RECURSIVE SplitFrom(_, _, _)
SplitFrom(s, i, cur) ==
    IF i > Len(s) THEN (IF cur = <<>> THEN <<>> ELSE <<cur>>)
    ELSE IF s[i] = SPACE
         THEN (IF cur = <<>> THEN <<>> ELSE <<cur>>) \o SplitFrom(s, i + 1, <<>>)
         ELSE SplitFrom(s, i + 1, Append(cur, s[i]))
Split(s) == SplitFrom(s, 1, <<>>)

-----------------------------------------------------------------------------
(* message.py: Message and MessageSegment                                   *)

Unset == [k |-> "unset"]

\* operands of +: a Message (its segment list), a MessageSegment, a str
Msg(q) == [k |-> "msg", v |-> q]
Seg(g) == [k |-> "seg", v |-> g]
Str(s) == [k |-> "str", v |-> s]

\* MessageSegment.text / html / attachment
MessageSegment_text(text) == [type |-> "text", data |-> text]
MessageSegment_html(html) == [type |-> "html", data |-> html]
MessageSegment_attachment(name) == [type |-> "attachment", data |-> name]

\* Message._construct: the segments a bare str stands for
Message_construct(msg) ==
    IF msg # "" THEN <<[type |-> "text", data |-> msg]>> ELSE <<>>

\* Message(x): the constructor of the base class, which _construct serves
Message_init(x) ==
    IF x.k = "str" THEN Message_construct(x.v)
    ELSE IF x.k = "seg" THEN <<x.v>>
    ELSE x.v

\* `MessageSegment.text(other) if isinstance(other, str) else other`
TextIfStr(other) ==
    IF other.k = "str" THEN Seg(MessageSegment_text(other.v)) ELSE other

\* the base class's `result += other`
Base_iadd(segs, other) ==
    IF other.k = "str" THEN segs \o Message_construct(other.v)
    ELSE IF other.k = "seg" THEN Append(segs, other.v)
    ELSE segs \o other.v

\* the base class's __add__: `result = self.copy(); result += other`.
\* result: the new Message; self: the receiver afterwards
Base_add(self, other) ==
    [result |-> Base_iadd(self, other), self |-> self]

\* Message.__add__
Message_add(self, other) == Base_add(self, TextIfStr(other))

\* the base class's __radd__: `result = Message(other); return result + self`
Base_radd(self, other) ==
    [result |-> Message_add(Message_init(other), Msg(self)).result, self |-> self]

\* a slip in Message.__radd__: the operand order of __add__
Message_radd_swapped(self, other) == Base_add(self, TextIfStr(other))

\* Message.__radd__
Message_radd(self, other) == Base_radd(self, TextIfStr(other))

\* MessageSegment.__add__: `Message(self) + (text(other) if str else other)`
MessageSegment_add(self, other) ==
    [result |-> Message_add(Message_init(Seg(self)), TextIfStr(other)).result,
     self |-> self]

\* MessageSegment.__radd__:
\* `(text(other) if str else Message(other)) + self`
MessageSegment_radd(self, other) ==
    [result |->
        IF other.k = "str"
        THEN MessageSegment_add(MessageSegment_text(other.v), Seg(self)).result
        ELSE Message_add(Message_init(other), Seg(self)).result,
     self |-> self]

\* Python's x + y for the operand kinds above (not both str): the left
\* operand's __add__, or for a str on the left the right operand's __radd__.
\* left, right: the operand objects afterwards
PyAdd(x, y) ==
    IF x.k = "msg"
    THEN LET r == Message_add(x.v, y)
         IN  [result |-> r.result, left |-> Msg(r.self), right |-> y]
    ELSE IF x.k = "seg"
    THEN LET r == MessageSegment_add(x.v, y)
         IN  [result |-> r.result, left |-> Seg(r.self), right |-> y]
    ELSE IF y.k = "msg"
    THEN LET r == Message_radd(y.v, x)
         IN  [result |-> r.result, left |-> x, right |-> Msg(r.self)]
    ELSE LET r == MessageSegment_radd(y.v, x)
         IN  [result |-> r.result, left |-> x, right |-> Seg(r.self)]

Segments ==
    {MessageSegment_text("x"), MessageSegment_html("h"),
     MessageSegment_attachment("f")}
Strings == {"", "x"}
Operands ==
    {Msg(q) : q \in SeqsUpTo(Segments, MaxMsgLen)}
        \cup {Seg(g) : g \in Segments} \cup {Str(s) : s \in Strings}

\* the segment sequence an operand stands for
Segs(x) ==
    IF x.k = "msg" THEN x.v
    ELSE IF x.k = "seg" THEN <<x.v>>
    ELSE <<MessageSegment_text(x.v)>>

BothStr(x, y) == x.k = "str" /\ y.k = "str"

InitMsg ==
    /\ m_in \in {<<a, b, c>> : a \in Operands, b \in Operands, c \in Operands}
    /\ m_a = m_in[1]
    /\ m_b = m_in[2]
    /\ m_c = m_in[3]
    /\ m_ab = Unset
    /\ m_bc = Unset
    /\ m_ab_c = Unset
    /\ m_a_bc = Unset

\* m_ab = m_a + m_b
AddAB ==
    /\ m_ab = Unset
    /\ ~BothStr(m_a, m_b)
    /\ LET r == PyAdd(m_a, m_b)
       IN  /\ m_ab' = Msg(r.result)
           /\ m_a' = r.left
           /\ m_b' = r.right
    /\ UNCHANGED <<m_in, m_c, m_bc, m_ab_c, m_a_bc, botVars, selVars,
                   sendVars, cycVars, concVars>>

\* m_bc = m_b + m_c
AddBC ==
    /\ m_bc = Unset
    /\ ~BothStr(m_b, m_c)
    /\ LET r == PyAdd(m_b, m_c)
       IN  /\ m_bc' = Msg(r.result)
           /\ m_b' = r.left
           /\ m_c' = r.right
    /\ UNCHANGED <<m_in, m_a, m_ab, m_ab_c, m_a_bc, botVars, selVars,
                   sendVars, cycVars, concVars>>

\* m_ab_c = m_ab + m_c
AddAB_C ==
    /\ m_ab # Unset
    /\ m_ab_c = Unset
    /\ LET r == PyAdd(m_ab, m_c)
       IN  /\ m_ab_c' = Msg(r.result)
           /\ m_ab' = r.left
           /\ m_c' = r.right
    /\ UNCHANGED <<m_in, m_a, m_b, m_bc, m_a_bc, botVars, selVars,
                   sendVars, cycVars, concVars>>

\* m_a_bc = m_a + m_bc
AddA_BC ==
    /\ m_bc # Unset
    /\ m_a_bc = Unset
    /\ LET r == PyAdd(m_a, m_bc)
       IN  /\ m_a_bc' = Msg(r.result)
           /\ m_a' = r.left
           /\ m_bc' = r.right
    /\ UNCHANGED <<m_in, m_b, m_c, m_ab, m_ab_c, botVars, selVars,
                   sendVars, cycVars, concVars>>

NextMsg == AddAB \/ AddBC \/ AddAB_C \/ AddA_BC

-----------------------------------------------------------------------------
(* bot.py: the data the Bot works on                                        *)

None == [t |-> "none"]
Bool(b) == [t |-> "bool", b |-> b]
Return(v) == [kind |-> "return", val |-> v]
Raise(e) == [kind |-> "raise", val |-> e]
Pending == [kind |-> "pending", val |-> None]

\* addresses: bot_info.id and somebody else
Me == "me@x"
Other == "other@x"

\* mailbox names
NoMailbox == <<>>
INBOX == <<"I", "N", "B", "O", "X">>
SentA == <<"S">>
SentB == <<"T", SPACE, "T">>
SentC == <<"U">>
Archive == <<"A">>
Mailboxes == {INBOX, SentA, SentB, SentC, Archive}
\* the mailboxes that may hold the mail with the Message-ID looked for
Holders == {INBOX, SentA, SentB, SentC}

\* a line of a LIST response, `(attrs) "/" name`, and the tagged status line
ListLine(attrs, name) == [attrs |-> attrs, name |-> name]
ListStatus == [attrs |-> <<>>, name |-> <<>>]
ListEntries ==
    {ListLine(<<"\\Sent">>, SentA),
     ListLine(<<"\\Sent">>, Quoted(SentB)),
     ListLine(<<"\\HasNoChildren", "\\Sent">>, SentC),
     ListLine(<<"\\HasNoChildren">>, Archive)}
\* the server lists each mailbox once, in any order
NoRepeat(q) == \A i, j \in 1..Len(q) : q[i] = q[j] => i = j
Listings == {q \in SeqsUpTo(ListEntries, MaxList) : NoRepeat(q)}
NotListed == <<ListLine(<<"not listed">>, <<>>)>>

\* i.startswith(b"(\\Sent)"): the attribute list is \Sent alone
StartsWithSent(line) == line.attrs = <<"\\Sent">>
\* str(i.decode().split(' "/" ')[-1])
NameOfLine(line) == line.name

\* [x for x in lines if keep(x)], mapped
RECURSIVE SentNames(_)
SentNames(lines) ==
    IF lines = <<>> THEN <<>>
    ELSE IF StartsWithSent(Head(lines))
         THEN <<NameOfLine(Head(lines))>> \o SentNames(Tail(lines))
         ELSE SentNames(Tail(lines))

\* bytes of the responses
StatusLine == <<79, 75>>
UidOne == <<49>>
UidTwo == <<49, 32, 50>>
FetchHead == <<49>>
FetchClose == <<50>>
BodyFrom(addr) == <<70, IF addr = Me THEN 109 ELSE 111>>

\* utils.parse_byte_mail: total; the sender of what does not parse is empty
parse_byte_mail(raw) ==
    [t |-> "mail",
     sender |-> IF Len(raw) = 2 /\ raw[1] = 70
                THEN (IF raw[2] = 109 THEN Me ELSE Other)
                ELSE ""]

IsMail(v) == v.t = "mail"

\* a response of the client library: Response(result, lines), or the await
\* raising (the library bounds each command by a timeout)
Response(result, lines) == [result |-> result, lines |-> lines]
Raised == Response("RAISE", <<>>)
NoResponse == Response("-", <<>>)

\* what the server, in the session's state, can answer to a command
CanSucceed(cmd, arg) ==
    CASE cmd = "LOGIN" -> conn = "NONAUTH"
      [] cmd = "ID" -> conn \in {"NONAUTH", "AUTH", "SELECTED"}
      [] cmd = "LOGOUT" -> conn \in {"NONAUTH", "AUTH", "SELECTED"}
      [] cmd = "LIST" -> conn \in {"AUTH", "SELECTED"}
      [] cmd = "SELECT" ->
            /\ conn \in {"AUTH", "SELECTED"}
            /\ \/ arg \in Mailboxes /\ ~HasSpace(arg)
               \/ /\ StartsWithQuote(arg) /\ EndsWithQuote(arg) /\ Len(arg) >= 2
                  /\ Slice1m1(arg) \in Mailboxes
      [] OTHER -> conn = "SELECTED"

\* the mailbox a SELECT argument names
ServerName(arg) ==
    IF StartsWithQuote(arg) /\ EndsWithQuote(arg) /\ Len(arg) >= 2
    THEN Slice1m1(arg) ELSE arg

OkLines(cmd) ==
    CASE cmd = "SEARCH_ID" ->
            IF selected \in store
            THEN {<<UidOne, StatusLine>>, <<UidTwo, StatusLine>>}
            ELSE {<<>>, <<<<>>, StatusLine>>}
      [] cmd = "SEARCH_UNSEEN" ->
            {<<>>, <<<<>>, StatusLine>>, <<UidOne, StatusLine>>,
             <<UidTwo, StatusLine>>}
      [] cmd = "FETCH" ->
            {<<>>, <<StatusLine>>}
                \cup {<<FetchHead, BodyFrom(a), FetchClose, StatusLine>> :
                        a \in {Me, Other}}
      [] cmd = "LIST" -> {q \o <<ListStatus>> : q \in Listings}
      [] OTHER -> {<<StatusLine>>}

Responses(cmd, arg) ==
    IF imap_client = "NoProtocol" THEN {Raised}
    ELSE {Raised, Response("NO", IF cmd = "LIST" THEN <<ListStatus>> ELSE <<StatusLine>>)}
            \cup (IF CanSucceed(cmd, arg)
                  THEN {Response("OK", l) : l \in OkLines(cmd)} ELSE {})

\* the session after the server answered r to the command
ConnAfter(cmd, arg, r) ==
    IF r.result = "RAISE" THEN conn
    ELSE IF cmd = "LOGIN" /\ r.result = "OK" THEN "AUTH"
    ELSE IF cmd = "LOGOUT" /\ r.result = "OK" THEN "LOGOUT"
    ELSE IF cmd = "SELECT" /\ r.result = "OK" THEN "SELECTED"
    ELSE IF cmd = "SELECT" /\ conn = "SELECTED" THEN "AUTH"
    ELSE conn

SelectedAfter(cmd, arg, r) ==
    IF r.result = "RAISE" THEN selected
    ELSE IF cmd = "LOGOUT" /\ r.result = "OK" THEN NoMailbox
    ELSE IF cmd = "SELECT" /\ r.result = "OK" THEN ServerName(arg)
    ELSE IF cmd = "SELECT" THEN NoMailbox
    ELSE selected

\* `await self.imap_client.<cmd>(arg)` answered by r, one of Responses(cmd, arg)
Issue(cmd, arg, r) ==
    /\ cmds' = Append(cmds, [cmd |-> cmd, arg |-> arg, res |-> r.result])
    /\ resp' = r
    /\ conn' = ConnAfter(cmd, arg, r)
    /\ selected' = SelectedAfter(cmd, arg, r)

\* what an await of the client raises: asyncio.TimeoutError from the
\* library's wait_for, AttributeError when the client has no protocol
LibraryError == IF imap_client = "NoProtocol" THEN "AttributeError" ELSE "TimeoutError"

-----------------------------------------------------------------------------
(* bot.py: the operations.  An operation runs from its call (pc = "idle")   *)
(* to its return or raise, one action per await.  The operators below give  *)
(* the control state (a record of the control variables) in which a piece   *)
(* of code ends; the actions apply them.                                    *)

NoEvent == [kind |-> "-", recipients_to |-> {}, in_reply_to |-> None,
            to_me |-> FALSE, reply |-> None]

Ctl == [op |-> op, pc |-> pc, outcome |-> outcome, stage |-> stage,
        mbox |-> mbox, sent |-> sent_mailbox_list, uid |-> mail_uid,
        mail |-> mail, listed |-> listed, event |-> event,
        dispatched |-> dispatched, checked |-> checked]

SetCtl(c) ==
    /\ op' = c.op
    /\ pc' = c.pc
    /\ outcome' = c.outcome
    /\ stage' = c.stage
    /\ mbox' = c.mbox
    /\ sent_mailbox_list' = c.sent
    /\ mail_uid' = c.uid
    /\ mail' = c.mail
    /\ listed' = c.listed
    /\ event' = c.event
    /\ dispatched' = c.dispatched
    /\ checked' = c.checked

\* the control state at the call of operation o
Fresh(o) == [op |-> o, pc |-> "idle", outcome |-> Pending, stage |-> "-",
             mbox |-> NoMailbox, sent |-> <<>>, uid |-> <<>>, mail |-> None,
             listed |-> NotListed, event |-> NoEvent, dispatched |-> 0,
             checked |-> 0]

\* the public operation returns or raises
Finish(c, res) == [c EXCEPT !.pc = "done", !.outcome = res]

\* _check_to_me testing `bot.bot_info.id in event.recipients_to`: an address
\* is never equal to a User, so nothing is set
check_to_me_users(ev) == ev

\* _check_to_me
check_to_me(ev) ==
    IF ev.kind = "NewMailMessageEvent" /\ Me \in ev.recipients_to
    THEN [ev EXCEPT !.to_me = TRUE] ELSE ev

\* _check_reply without its try: an exception of get_mail_of_id escapes
check_reply_done_no_try(c, res) ==
    IF res.kind = "raise" THEN Finish(c, res)
    ELSE [c EXCEPT !.pc = "dispatch", !.event.reply = res.val]

\* _check_reply taking every resolved mail for one the account sent
check_reply_done_any_sender(c, res) ==
    IF res.kind = "raise" THEN [c EXCEPT !.pc = "dispatch"]
    ELSE [c EXCEPT !.pc = "dispatch",
                   !.event.reply = res.val,
                   !.event.to_me = IF IsMail(res.val) THEN TRUE ELSE @]

\* _check_reply, from the return or raise of get_mail_of_id on
check_reply_done(c, res) ==
    IF res.kind = "raise" THEN [c EXCEPT !.pc = "dispatch"]
    ELSE [c EXCEPT !.pc = "dispatch",
                   !.event.reply = res.val,
                   !.event.to_me =
                        IF IsMail(res.val) /\ res.val.sender = Me THEN TRUE ELSE @]

\* get_mail_of_id returns or raises, to its caller
get_mail_of_id_done(c, res) ==
    IF c.op = "get_mail_of_id" THEN Finish(c, res) ELSE check_reply_done(c, res)

\* get_mail_of_id, from the return or raise of get_mail_of_id_in_mailbox on
get_mail_of_id_next(c, res) ==
    IF res.kind = "raise" THEN get_mail_of_id_done(c, res)
    ELSE IF c.stage = "inbox"
    THEN IF IsMail(res.val)
         THEN get_mail_of_id_done(c, Return(res.val))
         ELSE [c EXCEPT !.mail = res.val, !.pc = "list"]
    ELSE IF IsMail(res.val) \/ c.sent = <<>>
         THEN [c EXCEPT !.mail = res.val, !.pc = "reselect"]
         ELSE [c EXCEPT !.mail = res.val, !.mbox = Head(c.sent),
                        !.sent = Tail(c.sent), !.pc = "select"]

\* get_mail_of_id_in_mailbox returns or raises, to its caller
in_mailbox_done(c, res) ==
    IF c.op = "get_mail_of_id_in_mailbox" THEN Finish(c, res)
    ELSE get_mail_of_id_next(c, res)

\* get_mail_of_id_in_mailbox, up to the SELECT
in_mailbox_enter(c, mailbox) ==
    IF imap_client = "None"
    THEN in_mailbox_done(c, Raise("UninitializedException"))
    ELSE [c EXCEPT !.mbox = mailbox, !.pc = "select"]

\* get_mail_of_id, up to the SELECT of INBOX
get_mail_of_id_enter(c) ==
    IF imap_client # "Ready"
    THEN get_mail_of_id_done(c, Raise("UninitializedException"))
    ELSE in_mailbox_enter([c EXCEPT !.stage = "inbox"], INBOX)

\* select_mailbox without the unwrapping of a quoted name
SelectArg_no_unwrap(mailbox) ==
    IF ~HasSpace(mailbox) THEN mailbox ELSE Quoted(mailbox)

\* select_mailbox: the argument of SELECT
SelectArg(mailbox) ==
    LET name == IF StartsWithQuote(mailbox) /\ EndsWithQuote(mailbox)
                THEN Slice1m1(mailbox) ELSE mailbox
    IN  IF ~HasSpace(name) THEN name ELSE Quoted(name)

\* select_mailbox: its result for the response r
select_mailbox_result(r) ==
    IF r.result = "RAISE" THEN Raise(LibraryError)
    ELSE IF ~(r.result = "OK") THEN Return(Bool(FALSE))
    ELSE Return(Bool(TRUE))

\* get_mail_of_id_in_mailbox without the test of select_mailbox's result
after_select_unchecked(c, r) ==
    LET res == select_mailbox_result(r)
    IN  IF c.op = "select_mailbox" THEN Finish(c, res)
        ELSE IF res.kind = "raise" THEN in_mailbox_done(c, res)
        ELSE [c EXCEPT !.pc = "search_id"]

\* from the result of select_mailbox on
after_select(c, r) ==
    LET res == select_mailbox_result(r)
    IN  IF c.op = "select_mailbox" THEN Finish(c, res)
        ELSE IF res.kind = "raise" THEN in_mailbox_done(c, res)
        ELSE IF ~res.val.b THEN in_mailbox_done(c, Return(None))
        ELSE [c EXCEPT !.pc = "search_id"]

\* get_mail_of_id_in_mailbox, from the response to the search on
after_search_id(c, r) ==
    IF r.result = "RAISE" THEN in_mailbox_done(c, Raise(LibraryError))
    ELSE IF r.result # "OK" THEN in_mailbox_done(c, Raise("ActionFailed"))
    ELSE IF r.lines = <<>> THEN in_mailbox_done(c, Return(None))
    ELSE IF Decode(r.lines[1]) = DecodeError
    THEN in_mailbox_done(c, Raise("UnicodeDecodeError"))
    ELSE IF Decode(r.lines[1]) = <<>> THEN in_mailbox_done(c, Return(None))
    ELSE IF imap_client = "None"
    THEN in_mailbox_done(c, Raise("UninitializedException"))
    ELSE [c EXCEPT !.uid = Decode(r.lines[1]), !.pc = "fetch"]

\* get_mail_of_uid with `len(response.lines) < 1` for `< 2`
get_mail_of_uid_result_off_by_one(r) ==
    IF r.result = "RAISE" THEN Raise(LibraryError)
    ELSE IF r.result # "OK" THEN Raise("ActionFailed")
    ELSE IF Len(r.lines) < 1 THEN Return(None)
    ELSE IF Len(r.lines) < 2 THEN Raise("IndexError")
    ELSE Return(parse_byte_mail(r.lines[2]))

\* get_mail_of_uid: its result for the response r
get_mail_of_uid_result(r) ==
    IF r.result = "RAISE" THEN Raise(LibraryError)
    ELSE IF r.result # "OK" THEN Raise("ActionFailed")
    ELSE IF Len(r.lines) < 2 THEN Return(None)
    ELSE Return(parse_byte_mail(r.lines[2]))

\* from the result of get_mail_of_uid on
after_fetch(c, r) ==
    IF c.op = "get_mail_of_uid" THEN Finish(c, get_mail_of_uid_result(r))
    ELSE in_mailbox_done(c, get_mail_of_uid_result(r))

\* get_mail_of_id, from the response to LIST on
after_list(c, r) ==
    IF r.result = "RAISE" THEN get_mail_of_id_done(c, Raise(LibraryError))
    ELSE IF r.result # "OK" THEN get_mail_of_id_done(c, Raise("ActionFailed"))
    ELSE LET names == SentNames(r.lines)
             d == [c EXCEPT !.listed = r.lines, !.stage = "sent"]
         IN  IF names = <<>> THEN [d EXCEPT !.pc = "reselect"]
             ELSE [d EXCEPT !.mbox = Head(names), !.sent = Tail(names),
                            !.pc = "select"]

\* get_mail_of_id, from the response to the last SELECT on
after_reselect(c, r) ==
    IF r.result = "RAISE" THEN get_mail_of_id_done(c, Raise(LibraryError))
    ELSE get_mail_of_id_done(c, Return(c.mail))

\* get_unseen_uids: its result for the response r
get_unseen_uids_result(r) ==
    IF r.result = "RAISE" THEN Raise(LibraryError)
    ELSE IF r.result # "OK" THEN Raise("ActionFailed")
    ELSE IF Len(r.lines) = 0 THEN Raise("IndexError")
    ELSE IF Decode(r.lines[1]) = DecodeError THEN Raise("UnicodeDecodeError")
    ELSE Return([t |-> "list", items |-> Split(Decode(r.lines[1]))])

-----------------------------------------------------------------------------
(* The actions of the Bot                                                   *)

\* what the other specifications leave alone
IdleSel == sel_name = <<>> /\ sel_args = <<>>
IdleMsg ==
    /\ m_in = <<>>
    /\ m_a = Unset /\ m_b = Unset /\ m_c = Unset
    /\ m_ab = Unset /\ m_bc = Unset /\ m_ab_c = Unset /\ m_a_bc = Unset

IdleSend ==
    /\ send_args = <<>> /\ document = <<>> /\ submitted = <<>>
    /\ smtp_out = <<>> /\ failure = {}
IdleCyc == cyc = "off" /\ todo = <<>> /\ inbox_ok = TRUE

\* a task that has not called anything
FreshTask ==
    [ctl |-> Fresh("-"), cmds |-> <<>>, resp |-> NoResponse,
     pre_selected |-> NoMailbox, pre_conn |-> "NONE"]
IdleConc == parked = FreshTask /\ turn = 1

\* Bot.__init__: no client yet
InitBot ==
    /\ imap_client = "None"
    /\ conn = "NONE"
    /\ selected = NoMailbox
    /\ store \in SUBSET Holders
    /\ cmds = <<>>
    /\ pre_selected = NoMailbox
    /\ pre_conn = "NONE"
    /\ resp = NoResponse
    /\ op = "-" /\ pc = "idle" /\ outcome = Pending /\ stage = "-"
    /\ mbox = NoMailbox /\ sent_mailbox_list = <<>> /\ mail_uid = <<>>
    /\ mail = None /\ listed = NotListed /\ event = NoEvent
    /\ dispatched = 0 /\ checked = 0

\* the adapter gives the Bot its client: a new connection, greeting pending
AttachClient(p) ==
    /\ pc = "idle"
    /\ imap_client' = p
    /\ conn' = "NONAUTH"
    /\ selected' = NoMailbox
    /\ UNCHANGED <<store, cmds, pre_selected, pre_conn, resp>>
    /\ SetCtl(Ctl)
    /\ UNCHANGED <<selVars, msgVars, sendVars, cycVars, concVars>>

\* the caller has the result; the Bot keeps nothing of the call
Returned ==
    /\ pc = "done"
    /\ cmds' = <<>>
    /\ resp' = NoResponse
    /\ pre_selected' = NoMailbox
    /\ pre_conn' = "NONE"
    /\ UNCHANGED <<imap_client, conn, selected, store>>
    /\ SetCtl(Fresh("-"))
    /\ UNCHANGED <<selVars, msgVars, sendVars, cycVars, concVars>>

\* a public operation is called: c is the control state its code reaches
\* before its first await
Call(c) ==
    /\ pc = "idle"
    /\ cmds' = <<>>
    /\ resp' = NoResponse
    /\ pre_selected' = selected
    /\ pre_conn' = conn
    /\ UNCHANGED <<imap_client, conn, selected, store>>
    /\ SetCtl(c)
    /\ UNCHANGED <<selVars, msgVars, sendVars, cycVars, concVars>>

\* an await of a command of the client inside the operation
Await(at, cmd, arg, r, c) ==
    /\ pc = at
    /\ Issue(cmd, arg, r)
    /\ UNCHANGED <<imap_client, store, pre_selected, pre_conn>>
    /\ SetCtl(c)
    /\ UNCHANGED <<selVars, msgVars, sendVars, cycVars, concVars>>

\* a step that issues no command
Local(at, c) ==
    /\ pc = at
    /\ UNCHANGED <<imap_client, conn, selected, store, cmds, resp,
                   pre_selected, pre_conn>>
    /\ SetCtl(c)
    /\ UNCHANGED <<selVars, msgVars, sendVars, cycVars, concVars>>

Uninit(o) == Finish(Fresh(o), Raise("UninitializedException"))

login ==
    Call(IF imap_client = "None" THEN Uninit("login")
         ELSE [Fresh("login") EXCEPT !.pc = "login_hello"])

\* await self.imap_client.wait_hello_from_server()
login_hello(ok) ==
    /\ imap_client = "NoProtocol" => ~ok
    /\ Local("login_hello",
             IF ok THEN [Ctl EXCEPT !.pc = "login_login"]
             ELSE Finish(Ctl, Raise(LibraryError)))

\* login without the test of the LOGIN response: ID follows any answer
login_login_no_check(r) ==
    Await("login_login", "LOGIN", <<>>, r,
          IF r.result = "RAISE" THEN Finish(Ctl, Raise(LibraryError))
          ELSE [Ctl EXCEPT !.pc = "login_id"])

\* response = await self.imap_client.login(...)
login_login(r) ==
    Await("login_login", "LOGIN", <<>>, r,
          IF r.result = "RAISE" THEN Finish(Ctl, Raise(LibraryError))
          ELSE IF ~(r.result = "OK") THEN Finish(Ctl, Return(Bool(FALSE)))
          ELSE [Ctl EXCEPT !.pc = "login_id"])

login_id(r) ==
    Await("login_id", "ID", <<>>, r,
          IF r.result = "RAISE" THEN Finish(Ctl, Raise(LibraryError))
          ELSE IF ~(r.result = "OK") THEN Finish(Ctl, Return(Bool(FALSE)))
          ELSE Finish(Ctl, Return(Bool(TRUE))))

logout ==
    Call(IF imap_client = "None" THEN Uninit("logout")
         ELSE [Fresh("logout") EXCEPT !.pc = "logout_logout"])

logout_logout(r) ==
    Await("logout_logout", "LOGOUT", <<>>, r,
          IF r.result = "RAISE" THEN Finish(Ctl, Raise(LibraryError))
          ELSE IF ~(r.result = "OK") THEN Finish(Ctl, Return(Bool(FALSE)))
          ELSE [Ctl EXCEPT !.pc = "logout_close"])

\* await self.imap_client.close()
logout_close(r) ==
    Await("logout_close", "CLOSE", <<>>, r,
          IF r.result = "RAISE" THEN Finish(Ctl, Raise(LibraryError))
          ELSE Finish(Ctl, Return(Bool(TRUE))))

select_mailbox(mailbox) ==
    Call(IF imap_client = "None" THEN Uninit("select_mailbox")
         ELSE [Fresh("select_mailbox") EXCEPT !.mbox = mailbox, !.pc = "select"])

\* response = await self.imap_client.select(...), in select_mailbox
select(r) ==
    Await("select", "SELECT", SelectArg(mbox), r, after_select(Ctl, r))

get_unseen_uids ==
    Call(IF imap_client = "None" THEN Uninit("get_unseen_uids")
         ELSE [Fresh("get_unseen_uids") EXCEPT !.pc = "search_unseen"])

\* response = await self.imap_client.search("UNSEEN")
search_unseen(r) ==
    Await("search_unseen", "SEARCH_UNSEEN", <<>>, r,
          Finish(Ctl, get_unseen_uids_result(r)))

get_mail_of_uid(uid) ==
    Call(IF imap_client = "None" THEN Uninit("get_mail_of_uid")
         ELSE [Fresh("get_mail_of_uid") EXCEPT !.uid = uid, !.pc = "fetch"])

\* response = await self.imap_client.fetch(mail_uid, "(RFC822)")
fetch(r) ==
    Await("fetch", "FETCH", mail_uid, r, after_fetch(Ctl, r))

get_mail_of_id_in_mailbox(mailbox) ==
    Call(in_mailbox_enter(Fresh("get_mail_of_id_in_mailbox"), mailbox))

\* response = await self.imap_client.search(f"HEADER Message-ID {mail_id}")
search_id(r) ==
    Await("search_id", "SEARCH_ID", <<>>, r, after_search_id(Ctl, r))

get_mail_of_id ==
    Call(get_mail_of_id_enter(Fresh("get_mail_of_id")))

\* response = await self.imap_client.list('""', "*")
list(r) ==
    Await("list", "LIST", <<>>, r, after_list(Ctl, r))

\* await self.imap_client.select("INBOX")
reselect(r) ==
    Await("reselect", "SELECT", INBOX, r, after_reselect(Ctl, r))

\* handle_event without the correlation checks
bot_handle_event_unchecked(ev) ==
    Call([Fresh("handle_event") EXCEPT !.event = ev, !.pc = "dispatch"])

\* Bot.handle_event, up to _check_to_me
bot_handle_event(ev) ==
    Call([Fresh("handle_event") EXCEPT
            !.event = ev,
            !.pc = IF ev.kind \in {"NewMailMessageEvent", "MessageEvent"}
                   THEN "check_to_me" ELSE "dispatch"])

\* _check_to_me(self, event)
step_check_to_me ==
    Local("check_to_me",
          [Ctl EXCEPT !.event = check_to_me(event), !.checked = @ + 1,
                      !.pc = "check_reply"])

\* await _check_reply(self, event), up to the first await of get_mail_of_id
step_check_reply ==
    Local("check_reply",
          IF ~(event.kind = "NewMailMessageEvent") \/ event.in_reply_to = None
          THEN [Ctl EXCEPT !.pc = "dispatch"]
          ELSE get_mail_of_id_enter(Ctl))

\* await handle_event(self, event): the event goes to nonebot
dispatch ==
    Local("dispatch",
          Finish([Ctl EXCEPT !.dispatched = @ + 1], Return(None)))

\* the events the adapter hands to handle_event: to_me and reply as constructed
Events ==
    {[kind |-> "NewMailMessageEvent", recipients_to |-> rt, in_reply_to |-> irt,
      to_me |-> FALSE, reply |-> None] :
        rt \in {{Other}, {Me, Other}},
        irt \in {None, [t |-> "str", s |-> "<id>"]}}
    \cup {[NoEvent EXCEPT !.kind = "MessageEvent"],
          [NoEvent EXCEPT !.kind = "Event"]}

SelectInputs == {INBOX, SentA, Quoted(SentB), <<"Z">>}
Init == InitBot /\ IdleSel /\ IdleMsg /\ IdleSend /\ IdleCyc /\ IdleConc

Next ==
    \/ \E p \in {"NoProtocol", "Ready"} : AttachClient(p)
    \/ Returned
    \/ login
    \/ \E ok \in BOOLEAN : login_hello(ok)
    \/ \E r \in Responses("LOGIN", <<>>) : login_login(r)
    \/ \E r \in Responses("ID", <<>>) : login_id(r)
    \/ logout
    \/ \E r \in Responses("LOGOUT", <<>>) : logout_logout(r)
    \/ \E r \in Responses("CLOSE", <<>>) : logout_close(r)
    \/ \E m \in SelectInputs : select_mailbox(m)
    \/ \E r \in Responses("SELECT", SelectArg(mbox)) : select(r)
    \/ get_unseen_uids
    \/ \E r \in Responses("SEARCH_UNSEEN", <<>>) : search_unseen(r)
    \/ get_mail_of_uid(<<"1">>)
    \/ \E r \in Responses("FETCH", mail_uid) : fetch(r)
    \/ \E m \in {INBOX, SentA} : get_mail_of_id_in_mailbox(m)
    \/ \E r \in Responses("SEARCH_ID", <<>>) : search_id(r)
    \/ get_mail_of_id
    \/ \E r \in Responses("LIST", <<>>) : list(r)
    \/ \E r \in Responses("SELECT", INBOX) : reselect(r)

Spec == Init /\ [][Next]_vars

-----------------------------------------------------------------------------
(* SpecEvent: the adapter's polling loop hands events to handle_event, on a *)
(* Bot without a client, with a client not logged in, or with INBOX         *)
(* selected.                                                                *)

StartSessions ==
    {[client |-> "None", conn |-> "NONE", selected |-> NoMailbox],
     [client |-> "Ready", conn |-> "NONAUTH", selected |-> NoMailbox],
     [client |-> "Ready", conn |-> "SELECTED", selected |-> INBOX]}

InitEvent ==
    /\ \E s \in StartSessions :
            imap_client = s.client /\ conn = s.conn /\ selected = s.selected
    /\ store \in {h \in SUBSET Holders : Cardinality(h) <= 1}
    /\ cmds = <<>>
    /\ pre_selected = NoMailbox
    /\ pre_conn = "NONE"
    /\ resp = NoResponse
    /\ op = "-" /\ pc = "idle" /\ outcome = Pending /\ stage = "-"
    /\ mbox = NoMailbox /\ sent_mailbox_list = <<>> /\ mail_uid = <<>>
    /\ mail = None /\ listed = NotListed /\ event = NoEvent
    /\ dispatched = 0 /\ checked = 0
    /\ IdleSel /\ IdleMsg /\ IdleSend /\ IdleCyc /\ IdleConc

NextEvent ==
    \/ \E ev \in Events : bot_handle_event(ev)
    \/ step_check_to_me
    \/ step_check_reply
    \/ \E r \in Responses("SELECT", SelectArg(mbox)) : select(r)
    \/ \E r \in Responses("SEARCH_ID", <<>>) : search_id(r)
    \/ \E r \in Responses("FETCH", mail_uid) : fetch(r)
    \/ \E r \in Responses("LIST", <<>>) : list(r)
    \/ \E r \in Responses("SELECT", INBOX) : reselect(r)
    \/ dispatch
    \/ Returned

SpecEvent == InitEvent /\ [][NextEvent]_vars

-----------------------------------------------------------------------------
(* SpecSelect: select_mailbox(n), then select_mailbox('"' + n + '"'), on a  *)
(* logged-in session, for the bounded names n.                              *)

NameChars == {QUOTE, SPACE, "a"}
Names == SeqsUpTo(NameChars, MaxNameLen)

InitSelect ==
    /\ imap_client = "Ready" /\ conn = "AUTH" /\ selected = NoMailbox
    /\ store = {}
    /\ cmds = <<>>
    /\ pre_selected = NoMailbox
    /\ pre_conn = "NONE"
    /\ resp = NoResponse
    /\ op = "-" /\ pc = "idle" /\ outcome = Pending /\ stage = "-"
    /\ mbox = NoMailbox /\ sent_mailbox_list = <<>> /\ mail_uid = <<>>
    /\ mail = None /\ listed = NotListed /\ event = NoEvent
    /\ dispatched = 0 /\ checked = 0
    /\ sel_name \in Names
    /\ sel_args = <<>>
    /\ IdleMsg /\ IdleSend /\ IdleCyc /\ IdleConc

\* the name as given
SelectPlain ==
    /\ Len(sel_args) = 0
    /\ select_mailbox(sel_name)

\* the name wrapped in a pair of quotes by the caller
SelectWrapped ==
    /\ Len(sel_args) = 1
    /\ select_mailbox(Quoted(sel_name))

\* the call is over: what it sent as the argument of SELECT is noted
SelectReturned ==
    /\ pc = "done"
    /\ sel_args' = Append(sel_args, cmds[1].arg)
    /\ cmds' = <<>>
    /\ resp' = NoResponse
    /\ pre_selected' = NoMailbox
    /\ pre_conn' = "NONE"
    /\ UNCHANGED <<imap_client, conn, selected, store>>
    /\ SetCtl(Fresh("-"))
    /\ UNCHANGED <<sel_name, msgVars, sendVars, cycVars, concVars>>

NextSelect ==
    \/ SelectPlain
    \/ SelectWrapped
    \/ \E r \in Responses("SELECT", SelectArg(mbox)) : select(r)
    \/ SelectReturned

SpecSelect == InitSelect /\ [][NextSelect]_vars

-----------------------------------------------------------------------------
(* SpecUnseen: get_unseen_uids on a session with INBOX selected, for the    *)
(* bounded responses to the UNSEEN search.                                  *)

\* the bytes of an untagged SEARCH line: digits and spaces
SearchBytes == {32, 49, 50}
ByteLines == SeqsUpTo(SearchBytes, MaxLineLen)
\* the lines of a response: untagged SEARCH lines and the tagged status line
UnseenResponses ==
    {Raised} \cup {Response(res, l) :
                    res \in {"OK", "NO"},
                    l \in SeqsUpTo(ByteLines \cup {StatusLine}, MaxLines)}

InitUnseen ==
    /\ imap_client = "Ready" /\ conn = "SELECTED" /\ selected = INBOX
    /\ store = {}
    /\ cmds = <<>>
    /\ pre_selected = NoMailbox
    /\ pre_conn = "NONE"
    /\ resp = NoResponse
    /\ op = "-" /\ pc = "idle" /\ outcome = Pending /\ stage = "-"
    /\ mbox = NoMailbox /\ sent_mailbox_list = <<>> /\ mail_uid = <<>>
    /\ mail = None /\ listed = NotListed /\ event = NoEvent
    /\ dispatched = 0 /\ checked = 0
    /\ IdleSel /\ IdleMsg /\ IdleSend /\ IdleCyc /\ IdleConc

NextUnseen ==
    \/ get_unseen_uids
    \/ \E r \in UnseenResponses : search_unseen(r)
    \/ Returned

SpecUnseen == InitUnseen /\ [][NextUnseen]_vars

-----------------------------------------------------------------------------
(* SpecMsg: the sums of three operands                                      *)

IdleBot ==
    /\ imap_client = "None" /\ conn = "NONE" /\ selected = NoMailbox
    /\ store = {}
    /\ cmds = <<>>
    /\ pre_selected = NoMailbox
    /\ pre_conn = "NONE"
    /\ resp = NoResponse
    /\ op = "-" /\ pc = "idle" /\ outcome = Pending /\ stage = "-"
    /\ mbox = NoMailbox /\ sent_mailbox_list = <<>> /\ mail_uid = <<>>
    /\ mail = None /\ listed = NotListed /\ event = NoEvent
    /\ dispatched = 0 /\ checked = 0

InitMsgOnly == IdleBot /\ IdleSel /\ InitMsg /\ IdleSend /\ IdleCyc /\ IdleConc

SpecMsg == InitMsgOnly /\ [][NextMsg]_vars

-----------------------------------------------------------------------------
(* bot.py: send and send_mail.  SpecSend: one send at a time, for bounded    *)
(* arguments and every answer of the SMTP transport.                         *)

\* a str value, where None is possible too
S(x) == [t |-> "str", s |-> x]
\* a list value
L(q) == [t |-> "list", items |-> q]
\* Python's `not v` for None, a str and a list
Falsy(v) ==
    \/ v.t = "none"
    \/ v.t = "str" /\ v.s = ""
    \/ v.t = "list" /\ v.items = <<>>

\* an email.message.EmailMessage handed to send_mail
Email(doc) == [k |-> "email", v |-> doc]

\* the recipients a caller may give
Rcpts == {"a@x", "b@x", Me}
COMMA == ", "

\* ", ".join(recipients)
RECURSIVE Join(_)
Join(q) ==
    IF q = <<>> THEN <<>>
    ELSE IF Len(q) = 1 THEN q
    ELSE <<Head(q), COMMA>> \o Join(Tail(q))

\* bot_info.subject
DefaultSubject == "default"

\* an outbound document: its headers (None when absent) and its parts
Doc(from, to, subject, irt, parts) ==
    [From |-> from, To |-> to, Subject |-> subject, InReplyTo |-> irt,
     parts |-> parts]
NoDoc == <<>>

\* utils.extract_mail_parts: one MIME part for each segment, in order
extract_mail_parts(segs) == [i \in 1..Len(segs) |-> [part |-> segs[i]]]

\* send_mail, up to the try: the exception raised, or the document to submit
Composed(err, doc) == [err |-> err, doc |-> doc]

\* send_mail testing `recipients is None` for `not recipients`
send_mail_compose_none_only(message, subject, recipients, in_reply_to) ==
    LET subj == IF Falsy(subject) THEN S(DefaultSubject) ELSE subject
    IN  IF message.k = "msg"
        THEN IF recipients.t = "none"
             THEN Composed("ValueError", NoDoc)
             ELSE Composed("", Doc(S(Me), S(Join(recipients.items)), subj,
                                   IF Falsy(in_reply_to) THEN None ELSE in_reply_to,
                                   extract_mail_parts(message.v)))
        ELSE Composed("", message.v)

send_mail_compose(message, subject, recipients, in_reply_to) ==
    LET subj == IF Falsy(subject) THEN S(DefaultSubject) ELSE subject
    IN  IF message.k = "msg"
        THEN IF Falsy(recipients)
             THEN Composed("ValueError", NoDoc)
             ELSE Composed("", Doc(S(Me), S(Join(recipients.items)), subj,
                                   IF Falsy(in_reply_to) THEN None ELSE in_reply_to,
                                   extract_mail_parts(message.v)))
        ELSE Composed("", message.v)

\* Bot.send: the Message it hands to send_mail
send_message(message) ==
    IF message.k = "str" THEN Msg(<<MessageSegment_text(message.v)>>)
    ELSE IF message.k = "seg" THEN Msg(<<message.v>>)
    ELSE message

\* aiosmtplib's exception classes: the classes each one derives from
SmtpBases(cls) ==
    CASE cls = "SMTPRecipientsRefused" -> {"SMTPException"}
      [] cls \in {"SMTPAuthenticationError", "SMTPSenderRefused"} ->
            {"SMTPResponseException", "SMTPException"}
      [] cls \in {"SMTPConnectError", "SMTPTimeoutError", "SMTPServerDisconnected"} ->
            {"SMTPException"}
      [] OTHER -> {}
\* isinstance(e, cls)
IsInstance(e, cls) == e.cls = cls \/ cls \in SmtpBases(e.cls)

\* an exception: code and message of a response exception, recipients of
\* SMTPRecipientsRefused (a list of SMTPRecipientRefused)
Exc(cls, code, message, recipients) ==
    [cls |-> cls, code |-> code, message |-> message, recipients |-> recipients]
NoExc == Exc("-", "", "", <<>>)

\* the server's answer to RCPT for a recipient it refuses
RefusalOf(r) ==
    [key |-> r, code |-> IF r = "a@x" THEN "550" ELSE "553",
     message |-> IF r = "a@x" THEN "no such user" ELSE "relay denied"]

\* the addresses of a To header made by ", ".join
RECURSIVE AddrSeq(_)
AddrSeq(to) ==
    IF to = <<>> THEN <<>>
    ELSE IF Head(to) = COMMA THEN AddrSeq(Tail(to))
    ELSE <<Head(to)>> \o AddrSeq(Tail(to))
Envelope(doc) == IF doc.To.t = "none" THEN <<>> ELSE AddrSeq(doc.To.s)
Range(q) == {q[i] : i \in 1..Len(q)}

\* q without the elements outside F
RECURSIVE Keep(_, _)
Keep(q, F) ==
    IF q = <<>> THEN <<>>
    ELSE IF Head(q) \in F THEN <<Head(q)>> \o Keep(Tail(q), F)
    ELSE Keep(Tail(q), F)

\* what aiosmtplib.send did
SmtpReturn(errors, refused) ==
    [kind |-> "return", errors |-> errors, exc |-> NoExc, refused |-> refused]
SmtpRaise(e, refused) ==
    [kind |-> "raise", errors |-> {}, exc |-> e, refused |-> refused]
NoSmtp == <<>>

\* the transport when the server refuses the recipients F of the envelope:
\* all of them refused raises SMTPRecipientsRefused, otherwise the mail goes
\* to the others and the refusals are returned
Deliver(doc, F) ==
    IF F # {} /\ F = Range(Envelope(doc))
    THEN SmtpRaise(Exc("SMTPRecipientsRefused", "", "",
                       [i \in 1..Len(Keep(Envelope(doc), F)) |->
                            RefusalOf(Keep(Envelope(doc), F)[i])]), F)
    ELSE SmtpReturn({RefusalOf(r) : r \in F}, F)

TransportErrors ==
    {Exc("SMTPAuthenticationError", "535", "bad credentials", <<>>),
     Exc("SMTPSenderRefused", "554", "sender refused", <<>>),
     Exc("SMTPConnectError", "", "", <<>>),
     Exc("SMTPTimeoutError", "", "", <<>>),
     Exc("SMTPServerDisconnected", "", "", <<>>),
     Exc("ValueError", "", "", <<>>),
     Exc("OSError", "", "", <<>>)}

SmtpOutcomes(doc) ==
    {SmtpRaise(e, {}) : e \in TransportErrors}
        \cup {Deliver(doc, F) : F \in SUBSET Range(Envelope(doc))}

\* {i.recipient: SMTPResponse(i.code, i.message) for i in e.recipients}
DictOf(q) ==
    {q[i] : i \in {j \in 1..Len(q) : \A k \in (j + 1)..Len(q) : q[k].key # q[j].key}}

\* how send_mail ends: what it returns or raises, and the mapping of an
\* ActionFailed
SendResult(res, map) == [outcome |-> res, failure |-> map]

\* send_mail without the test of response[0]
send_mail_result_unchecked(o) ==
    IF o.kind = "raise"
    THEN IF IsInstance(o.exc, "SMTPRecipientsRefused")
         THEN SendResult(Raise("ActionFailed"), DictOf(o.exc.recipients))
         ELSE IF IsInstance(o.exc, "SMTPResponseException")
         THEN SendResult(Raise("ActionFailed"),
                         {[key |-> Me, code |-> o.exc.code, message |-> o.exc.message]})
         ELSE IF IsInstance(o.exc, "SMTPException")
         THEN SendResult(Raise("NetworkError"), {})
         ELSE SendResult(Raise(o.exc.cls), {})
    ELSE SendResult(Return(None), {})

\* send_mail with the except clauses in the other order
send_mail_result_base_first(o) ==
    IF o.kind = "raise"
    THEN IF IsInstance(o.exc, "SMTPException")
         THEN SendResult(Raise("NetworkError"), {})
         ELSE IF IsInstance(o.exc, "SMTPResponseException")
         THEN SendResult(Raise("ActionFailed"),
                         {[key |-> Me, code |-> o.exc.code, message |-> o.exc.message]})
         ELSE IF IsInstance(o.exc, "SMTPRecipientsRefused")
         THEN SendResult(Raise("ActionFailed"), DictOf(o.exc.recipients))
         ELSE SendResult(Raise(o.exc.cls), {})
    ELSE IF o.errors # {} THEN SendResult(Raise("ActionFailed"), o.errors)
    ELSE SendResult(Return(None), {})

\* send_mail, from the await of aiosmtplib.send on
send_mail_result(o) ==
    IF o.kind = "raise"
    THEN IF IsInstance(o.exc, "SMTPRecipientsRefused")
         THEN SendResult(Raise("ActionFailed"), DictOf(o.exc.recipients))
         ELSE IF IsInstance(o.exc, "SMTPResponseException")
         THEN SendResult(Raise("ActionFailed"),
                         {[key |-> Me, code |-> o.exc.code, message |-> o.exc.message]})
         ELSE IF IsInstance(o.exc, "SMTPException")
         THEN SendResult(Raise("NetworkError"), {})
         ELSE SendResult(Raise(o.exc.cls), {})
    ELSE IF o.errors # {} THEN SendResult(Raise("ActionFailed"), o.errors)
    ELSE SendResult(Return(None), {})

\* the arguments of a send: of send_mail, or of send (event and message)
SendArgs(via, ev, message, subject, recipients, in_reply_to) ==
    [via |-> via, event |-> ev, message |-> message, subject |-> subject,
     recipients |-> recipients, in_reply_to |-> in_reply_to]

\* a call of send or send_mail with the arguments a, up to the await of the
\* transport: c is what the code before it comes to
SendCall(o, a, c) ==
    /\ pc = "idle"
    /\ send_args' = a
    /\ document' = c.doc
    /\ submitted' = <<>>
    /\ smtp_out' = NoSmtp
    /\ failure' = {}
    /\ cmds' = <<>>
    /\ resp' = NoResponse
    /\ pre_selected' = selected
    /\ pre_conn' = conn
    /\ UNCHANGED <<imap_client, conn, selected, store>>
    /\ SetCtl(IF c.err # "" THEN Finish(Fresh(o), Raise(c.err))
              ELSE [Fresh(o) EXCEPT !.pc = "smtp_send"])
    /\ UNCHANGED <<selVars, msgVars, cycVars, concVars>>

\* Bot.send_mail
send_mail(a) ==
    SendCall("send_mail", a,
             send_mail_compose(a.message, a.subject, a.recipients, a.in_reply_to))

\* Bot.send
bot_send(a) ==
    SendCall("send", a,
             IF a.event.kind \notin {"NewMailMessageEvent", "MessageEvent"}
             THEN Composed("RuntimeError", NoDoc)
             ELSE send_mail_compose(send_message(a.message), a.subject,
                                    L(<<a.event.sender>>), a.in_reply_to))

\* response = await aiosmtplib.send(_message, ...), and what follows it
smtp_send(o) ==
    /\ pc = "smtp_send"
    /\ submitted' = Append(submitted, document)
    /\ smtp_out' = o
    /\ failure' = send_mail_result(o).failure
    /\ UNCHANGED <<send_args, document>>
    /\ UNCHANGED <<imap_client, conn, selected, store, cmds, resp,
                   pre_selected, pre_conn>>
    /\ SetCtl(Finish(Ctl, send_mail_result(o).outcome))
    /\ UNCHANGED <<selVars, msgVars, cycVars, concVars>>

\* the caller has the result of the send
SendReturned ==
    /\ pc = "done"
    /\ send_args' = <<>> /\ document' = NoDoc /\ submitted' = <<>>
    /\ smtp_out' = NoSmtp /\ failure' = {}
    /\ UNCHANGED <<imap_client, conn, selected, store, cmds, resp,
                   pre_selected, pre_conn>>
    /\ SetCtl(Fresh("-"))
    /\ UNCHANGED <<selVars, msgVars, cycVars, concVars>>

\* most recipients of a send
MaxRcpt == 2

RecipientLists ==
    {None} \cup {L(q) : q \in {r \in SeqsUpTo(Rcpts, MaxRcpt) : NoRepeat(r)}}
Subjects == {None, S(""), S("s")}
ReplyIds == {None, S(""), S("<id>")}
\* documents formed by the caller: with headers of its own, and without any
Documents ==
    {Doc(S(Other), S(<<"a@x", COMMA, "b@x">>), S("theirs"), None, <<>>),
     Doc(None, None, None, None, <<>>)}
SendMessages ==
    {Msg(q) : q \in SeqsUpTo(Segments, 1)} \cup {Email(d) : d \in Documents}
NoSender == [kind |-> "-", sender |-> ""]
SendMailInputs ==
    {SendArgs("send_mail", NoSender, m, sj, rc, irt) :
        m \in SendMessages, sj \in Subjects, rc \in RecipientLists,
        irt \in ReplyIds}
SendInputs ==
    {SendArgs("send", [kind |-> k, sender |-> sd], m, sj, None, irt) :
        k \in {"NewMailMessageEvent", "Event"}, sd \in {"a@x", Me},
        m \in {Str(""), Str("x"), Seg(MessageSegment_html("h")),
               Msg(<<>>), Msg(<<MessageSegment_text("x")>>)},
        sj \in {None, S("s")}, irt \in {None, S("<id>")}}

InitSend ==
    /\ imap_client = "None" /\ conn = "NONE" /\ selected = NoMailbox
    /\ store = {}
    /\ cmds = <<>>
    /\ pre_selected = NoMailbox
    /\ pre_conn = "NONE"
    /\ resp = NoResponse
    /\ op = "-" /\ pc = "idle" /\ outcome = Pending /\ stage = "-"
    /\ mbox = NoMailbox /\ sent_mailbox_list = <<>> /\ mail_uid = <<>>
    /\ mail = None /\ listed = NotListed /\ event = NoEvent
    /\ dispatched = 0 /\ checked = 0
    /\ IdleSel /\ IdleMsg /\ IdleSend /\ IdleCyc /\ IdleConc

NextSend ==
    \/ \E a \in SendMailInputs : send_mail(a)
    \/ \E a \in SendInputs : bot_send(a)
    \/ pc = "smtp_send" /\ \E o \in SmtpOutcomes(document) : smtp_send(o)
    \/ SendReturned

SpecSend == InitSend /\ [][NextSend]_vars

-----------------------------------------------------------------------------
(* SpecCycle: the adapter's polling cycle on a logged-in session: select    *)
(* INBOX, get_unseen_uids, then for each UID in turn get_mail_of_uid and    *)
(* handle_event of the event made from the mail.  The driver calls the next *)
(* operation when the one before has returned; it gives up the cycle when   *)
(* an operation raises.                                                     *)

\* the call in progress had every SELECT of INBOX answered OK
InboxGranted ==
    \A i \in 1..Len(cmds) :
        (cmds[i].cmd = "SELECT" /\ cmds[i].arg = INBOX) => cmds[i].res = "OK"

\* the driver takes the result of the call before and calls the next
\* operation, which runs up to its first await (control state c)
CycleCall(c, phase, uids) ==
    /\ cmds' = <<>>
    /\ resp' = NoResponse
    /\ pre_selected' = selected
    /\ pre_conn' = conn
    /\ UNCHANGED <<imap_client, conn, selected, store>>
    /\ SetCtl(c)
    /\ cyc' = phase
    /\ todo' = uids
    /\ inbox_ok' = (inbox_ok /\ InboxGranted)
    /\ UNCHANGED <<selVars, msgVars, sendVars, concVars>>

\* await bot.select_mailbox()
CycleSelect ==
    /\ cyc = "off" /\ pc = "idle"
    /\ CycleCall(IF imap_client = "None" THEN Uninit("select_mailbox")
                 ELSE [Fresh("select_mailbox") EXCEPT !.mbox = INBOX,
                                                      !.pc = "select"],
                 "select", <<>>)

\* await bot.get_unseen_uids()
CycleUnseen ==
    /\ cyc = "select" /\ pc = "done" /\ outcome.kind = "return"
    /\ CycleCall(IF imap_client = "None" THEN Uninit("get_unseen_uids")
                 ELSE [Fresh("get_unseen_uids") EXCEPT !.pc = "search_unseen"],
                 "unseen", <<>>)

\* `if mail:` of the loop
GaveMail == outcome.kind = "return" /\ IsMail(outcome.val)

\* the UIDs the loop has still to go through
Remaining ==
    IF cyc = "unseen" /\ outcome.kind = "return" THEN outcome.val.items
    ELSE IF cyc = "event" \/ (cyc = "fetch" /\ (outcome.kind = "return" /\ outcome.val = None)) THEN todo
    ELSE <<>>

\* await bot.get_mail_of_uid(uid), for the next UID
CycleFetch ==
    /\ pc = "done" /\ Remaining # <<>>
    /\ CycleCall(IF imap_client = "None" THEN Uninit("get_mail_of_uid")
                 ELSE [Fresh("get_mail_of_uid") EXCEPT !.uid = Head(Remaining),
                                                       !.pc = "fetch"],
                 "fetch", Tail(Remaining))

\* the events made from a fetched mail
CycleEvents == {ev \in Events : ev.kind = "NewMailMessageEvent"}

\* await bot.handle_event(event), for the mail just fetched
CycleEvent(ev) ==
    /\ cyc = "fetch" /\ pc = "done" /\ GaveMail
    /\ CycleCall([Fresh("handle_event") EXCEPT !.event = ev,
                                               !.pc = "check_to_me"],
                 "event", todo)

\* the cycle is over: no UID is left, or an operation raised
CycleEnd ==
    /\ cyc # "off" /\ pc = "done"
    /\ outcome.kind = "raise" \/ (cyc # "select" /\ ~GaveMail /\ Remaining = <<>>)
    /\ cmds' = <<>>
    /\ resp' = NoResponse
    /\ pre_selected' = NoMailbox
    /\ pre_conn' = "NONE"
    /\ UNCHANGED <<imap_client, conn, selected, store>>
    /\ SetCtl(Fresh("-"))
    /\ cyc' = "off"
    /\ todo' = <<>>
    /\ inbox_ok' = TRUE
    /\ UNCHANGED <<selVars, msgVars, sendVars, concVars>>

\* the Bot is logged in
InitCycle ==
    /\ imap_client = "Ready"
    /\ conn = "AUTH"
    /\ selected = NoMailbox
    /\ store \in {h \in SUBSET Holders : Cardinality(h) <= 1}
    /\ cmds = <<>>
    /\ pre_selected = NoMailbox
    /\ pre_conn = "NONE"
    /\ resp = NoResponse
    /\ op = "-" /\ pc = "idle" /\ outcome = Pending /\ stage = "-"
    /\ mbox = NoMailbox /\ sent_mailbox_list = <<>> /\ mail_uid = <<>>
    /\ mail = None /\ listed = NotListed /\ event = NoEvent
    /\ dispatched = 0 /\ checked = 0
    /\ IdleSel /\ IdleMsg /\ IdleSend /\ IdleCyc /\ IdleConc

NextCycle ==
    \/ CycleSelect
    \/ CycleUnseen
    \/ CycleFetch
    \/ \E ev \in CycleEvents : CycleEvent(ev)
    \/ CycleEnd
    \/ \E r \in Responses("SELECT", SelectArg(mbox)) : select(r)
    \/ \E r \in Responses("SEARCH_UNSEEN", <<>>) : search_unseen(r)
    \/ \E r \in Responses("FETCH", mail_uid) : fetch(r)
    \/ step_check_to_me
    \/ step_check_reply
    \/ \E r \in Responses("SEARCH_ID", <<>>) : search_id(r)
    \/ \E r \in Responses("LIST", <<>>) : list(r)
    \/ \E r \in Responses("SELECT", INBOX) : reselect(r)
    \/ dispatch

SpecCycle == InitCycle /\ [][NextCycle]_vars

-----------------------------------------------------------------------------
(* SpecConc: two tasks of one event loop call handle_event (task 1) and     *)
(* get_mail_of_id (task 2) on the same Bot.  The Bot holds no lock: a task  *)
(* runs up to an await of the client, the loop may then resume the other    *)
(* task, and the client sends the commands of both on the one connection,   *)
(* each with its response, in the order they were issued.  The control      *)
(* variables are those of the running task; `parked` keeps the other one's. *)

\* the running task, as it stands
Task ==
    [ctl |-> Ctl, cmds |-> cmds, resp |-> resp,
     pre_selected |-> pre_selected, pre_conn |-> pre_conn]

\* the running task awaits; the loop resumes the other one
Switch ==
    /\ pc # "done"
    /\ SetCtl(parked.ctl)
    /\ cmds' = parked.cmds
    /\ resp' = parked.resp
    /\ pre_selected' = parked.pre_selected
    /\ pre_conn' = parked.pre_conn
    /\ parked' = Task
    /\ turn' = 3 - turn
    /\ UNCHANGED <<imap_client, conn, selected, store>>
    /\ UNCHANGED <<selVars, msgVars, sendVars, cycVars>>

\* the answers of a server that answers in time, grants what the session's
\* state allows, lists one Sent mailbox and holds the mail once per mailbox
ConcResponses(cmd, arg) ==
    LET granted ==
            {r \in Responses(cmd, arg) :
                /\ r.result = "OK"
                /\ cmd = "LIST" =>
                      r.lines = <<ListLine(<<"\\Sent">>, SentA), ListStatus>>
                /\ cmd = "SEARCH_ID" =>
                      r.lines \in {<<UidOne, StatusLine>>, <<<<>>, StatusLine>>}
                /\ cmd = "FETCH" =>
                      r.lines \in {<<StatusLine>>,
                                   <<FetchHead, BodyFrom(Me), FetchClose,
                                     StatusLine>>}}
    IN  IF granted # {} THEN granted
        ELSE {r \in Responses(cmd, arg) : r.result = "NO"}

\* the events whose reply is to be resolved
ConcEvents ==
    {ev \in Events : ev.kind = "NewMailMessageEvent" /\ ev.in_reply_to # None
                        /\ ev.recipients_to = {Other}}

\* the Bot is logged in, INBOX selected; both tasks have yet to call
InitConc ==
    /\ imap_client = "Ready"
    /\ conn = "SELECTED"
    /\ selected = INBOX
    /\ store \in {{INBOX}, {SentA}}
    /\ cmds = <<>>
    /\ pre_selected = NoMailbox
    /\ pre_conn = "NONE"
    /\ resp = NoResponse
    /\ op = "-" /\ pc = "idle" /\ outcome = Pending /\ stage = "-"
    /\ mbox = NoMailbox /\ sent_mailbox_list = <<>> /\ mail_uid = <<>>
    /\ mail = None /\ listed = NotListed /\ event = NoEvent
    /\ dispatched = 0 /\ checked = 0
    /\ IdleSel /\ IdleMsg /\ IdleSend /\ IdleCyc /\ IdleConc

NextConc ==
    \/ Switch
    \/ turn = 2 /\ get_mail_of_id
    \/ turn = 1 /\ \E ev \in ConcEvents : bot_handle_event(ev)
    \/ step_check_to_me
    \/ step_check_reply
    \/ \E r \in ConcResponses("SELECT", SelectArg(mbox)) : select(r)
    \/ \E r \in ConcResponses("SEARCH_ID", <<>>) : search_id(r)
    \/ \E r \in ConcResponses("FETCH", mail_uid) : fetch(r)
    \/ \E r \in ConcResponses("LIST", <<>>) : list(r)
    \/ \E r \in ConcResponses("SELECT", INBOX) : reselect(r)
    \/ dispatch
    \/ Returned

SpecConc == InitConc /\ [][NextConc]_vars

-----------------------------------------------------------------------------
(* The claims                                                               *)

SessionOps ==
    {"login", "logout", "select_mailbox", "get_unseen_uids", "get_mail_of_uid",
     "get_mail_of_id_in_mailbox", "get_mail_of_id"}

Raises(e) == outcome.kind = "raise" /\ outcome.val = e
Returns == outcome.kind = "return"
ReturnsNone == outcome.kind = "return" /\ outcome.val.t = "none"
ReturnsMail == outcome.kind = "return" /\ outcome.val.t = "mail"

Ended(o) == pc = "done" /\ op = o

\* the SELECTs of the call, by the mailbox each names
RECURSIVE SelectsOf(_)
SelectsOf(log) ==
    IF log = <<>> THEN <<>>
    ELSE IF Head(log).cmd = "SELECT"
         THEN <<ServerName(Head(log).arg)>> \o SelectsOf(Tail(log))
         ELSE SelectsOf(Tail(log))

\* the mailboxes a LIST response flags as Sent, in its order
RECURSIVE SentFlagged(_)
SentFlagged(lines) ==
    IF lines = <<>> THEN <<>>
    ELSE IF \E i \in 1..Len(Head(lines).attrs) : Head(lines).attrs[i] = "\\Sent"
         THEN <<ServerName(Head(lines).name)>> \o SentFlagged(Tail(lines))
         ELSE SentFlagged(Tail(lines))

IsPrefix(p, q) == Len(p) <= Len(q) /\ SubSeq(q, 1, Len(p)) = p

\* C1 (as claimed): a call of get_mail_of_id on a session with INBOX selected
\* that returns, or raises ActionFailed, ends with INBOX selected.  Stated for
\* the calls in which the server refused no SELECT of INBOX, so that where
\* the session ends is the code's doing.
C1_EndsOnInbox ==
    ( /\ Ended("get_mail_of_id")
      /\ pre_selected = INBOX
      /\ Returns \/ Raises("ActionFailed")
      /\ \A i \in 1..Len(cmds) :
            cmds[i].cmd = "SELECT" /\ cmds[i].arg = INBOX => cmds[i].res = "OK" )
    => selected = INBOX

\* the mailboxes get_mail_of_id tried: its SELECTs but the closing one
Tried ==
    LET sel == SelectsOf(cmds)
    IN  IF listed = NotListed THEN sel ELSE SubSeq(sel, 1, Len(sel) - 1)

\* INBOX, then the Sent-flagged mailboxes as LIST gave them
TryOrder == <<INBOX>> \o (IF listed = NotListed THEN <<>> ELSE SentFlagged(listed))

\* C3 (as claimed): a call of get_mail_of_id that returns has tried the
\* mailboxes in the order INBOX, then the Sent-flagged mailboxes as LIST gave
\* them; a mail it returns was found in the last mailbox it tried, and LIST
\* was not issued when that was INBOX; it returns none only after trying
\* every mailbox of the order.  (A hit is read as a mailbox that gave the
\* mail.)
C3_FirstHitInOrder ==
    (Ended("get_mail_of_id") /\ Returns /\ imap_client = "Ready") =>
        /\ IsPrefix(Tried, TryOrder)
        /\ ReturnsMail =>
              /\ Tried[Len(Tried)] \in store
              /\ Len(Tried) = 1 => listed = NotListed
        /\ ReturnsNone => Tried = TryOrder

\* the state the operation requires in the session's state machine
InRequiredState ==
    CASE op = "login" -> pre_conn = "NONAUTH"
      [] op \in {"get_unseen_uids", "get_mail_of_uid"} -> pre_conn = "SELECTED"
      [] OTHER -> pre_conn \in {"AUTH", "SELECTED"}

\* C4: an operation invoked outside the session state it requires fails with
\* UninitializedException and sends no command.  Stated for a Bot whose
\* client is connected.
C4_StateChecked ==
    (pc = "done" /\ op \in SessionOps /\ imap_client = "Ready" /\ ~InRequiredState) =>
        Raises("UninitializedException") /\ cmds = <<>>

IsStr(x, s) == x.k = "str" /\ x.v = s

\* C5 (as claimed): for a Message a, a + "" and "" + a have the segments of a.
C5_EmptyStringAddsNothing ==
    m_ab # Unset =>
        /\ (m_in[1].k = "msg" /\ IsStr(m_in[2], "")) => m_ab.v = m_in[1].v
        /\ (IsStr(m_in[1], "") /\ m_in[2].k = "msg") => m_ab.v = m_in[2].v

NonEmpty(x) == ~IsStr(x, "")

\* C6: a sum has the segments of its left operand followed by those of its
\* right operand (a MessageSegment or a non-empty str counting as its one
\* segment), the operands are as they were constructed, and (a + b) + c has
\* the segments of a + (b + c): those of a, b and c in this order.
C6_ConcatenationInOrder ==
    /\ m_a = m_in[1] /\ m_b = m_in[2] /\ m_c = m_in[3]
    /\ (m_ab # Unset /\ NonEmpty(m_in[1]) /\ NonEmpty(m_in[2])) =>
            m_ab.v = Segs(m_in[1]) \o Segs(m_in[2])
    /\ (m_bc # Unset /\ NonEmpty(m_in[2]) /\ NonEmpty(m_in[3])) =>
            m_bc.v = Segs(m_in[2]) \o Segs(m_in[3])
    /\ ( /\ m_ab_c # Unset /\ m_a_bc # Unset
         /\ NonEmpty(m_in[1]) /\ NonEmpty(m_in[2]) /\ NonEmpty(m_in[3]) ) =>
            /\ m_ab_c.v = Segs(m_in[1]) \o Segs(m_in[2]) \o Segs(m_in[3])
            /\ m_a_bc.v = m_ab_c.v

C6_Witness ==
    /\ m_ab_c # Unset /\ m_a_bc # Unset
    /\ IsStr(m_in[1], "x")
    /\ m_in[2].k = "msg" /\ Len(m_in[2].v) = 2 /\ m_in[2].v[1] # m_in[2].v[2]
    /\ m_in[3].k = "seg"
    /\ m_ab_c.v = Segs(m_in[1]) \o Segs(m_in[2]) \o Segs(m_in[3])

Resolving == event.kind = "NewMailMessageEvent" /\ event.in_reply_to # None

\* get_mail_of_id, called by _check_reply, raised
ResolutionRaised ==
    /\ Resolving
    /\ \/ imap_client # "Ready"
       \/ /\ cmds # <<>>
          /\ \/ cmds[Len(cmds)].res = "RAISE"
             \/ /\ cmds[Len(cmds)].res = "NO"
                /\ cmds[Len(cmds)].cmd \in {"SEARCH_ID", "FETCH", "LIST"}

\* C2: handle_event never raises and hands every event to nonebot exactly
\* once; when get_mail_of_id raised (no client, ActionFailed, an error of the
\* library), the event goes on with reply absent, and reply is set only from
\* a FETCH the server answered OK.
C2_AlwaysDispatched ==
    /\ dispatched <= 1
    /\ Ended("handle_event") => (dispatched = 1 /\ Returns)
    /\ (op = "handle_event" /\ pc \in {"dispatch", "done"} /\ ResolutionRaised) =>
            event.reply = None
    /\ (op = "handle_event" /\ event.reply # None) =>
            \E i \in 1..Len(cmds) : cmds[i].cmd = "FETCH" /\ cmds[i].res = "OK"

C2_Witness ==
    /\ Ended("handle_event")
    /\ dispatched = 1
    /\ \E i \in 1..Len(cmds) : cmds[i].cmd = "SEARCH_ID" /\ cmds[i].res = "NO"
    /\ event.reply = None

\* C7: once _check_to_me has run, an event whose recipients_to holds the
\* account's own address has to_me true, up to and after its dispatch,
\* whatever the client and the session are and however the reply resolution
\* ends; and _check_to_me has issued no command.
C7_ToMeWithoutNetwork ==
    /\ ( /\ op = "handle_event" /\ pc \in {"check_reply", "select", "search_id",
                                           "fetch", "list", "reselect",
                                           "dispatch", "done"}
         /\ event.kind = "NewMailMessageEvent"
         /\ Me \in event.recipients_to ) => event.to_me
    /\ pc = "check_reply" => cmds = <<>>

C7_Witness ==
    /\ Ended("handle_event")
    /\ dispatched = 1
    /\ imap_client = "None"
    /\ Me \in event.recipients_to
    /\ event.in_reply_to # None
    /\ event.reply = None
    /\ event.to_me

SelfWrapped(n) == StartsWithQuote(n) /\ EndsWithQuote(n)

\* C8 (as claimed): for every name, the two calls send the same argument.
C8_SameArgForEveryName ==
    Len(sel_args) = 2 => sel_args[1] = sel_args[2]

\* C8 (amended): for every name that does not itself begin and end with a
\* double quote, select_mailbox(n) sends n in one pair of quotes when n holds
\* a space and n bare otherwise, and select_mailbox('"' + n + '"') sends the
\* same.
C8_SameArgUnlessWrapped ==
    ~SelfWrapped(sel_name) =>
        /\ Len(sel_args) >= 1 =>
              sel_args[1] = (IF HasSpace(sel_name) THEN Quoted(sel_name) ELSE sel_name)
        /\ Len(sel_args) = 2 => sel_args[2] = sel_args[1]

C8_Witness ==
    /\ Len(sel_args) = 2
    /\ HasSpace(sel_name)
    /\ ~SelfWrapped(sel_name)
    /\ sel_args[2] = Quoted(sel_name)

\* the UIDs an UNSEEN search response carries: the words of its first line,
\* when that is an untagged SEARCH line and not the tagged status line
UidsOf(r) ==
    IF Len(r.lines) = 0 \/ r.lines[1] = StatusLine THEN <<>>
    ELSE Split(Decode(r.lines[1]))

\* C9 (as claimed): get_unseen_uids returns the UIDs of an OK response, in
\* its order, the empty list when it carries none, and raises ActionFailed
\* exactly when the result is not OK.
C9_UnseenUids ==
    (Ended("get_unseen_uids") /\ resp.result \in {"OK", "NO"}) =>
        /\ resp.result = "OK" => (Returns /\ outcome.val.items = UidsOf(resp))
        /\ Raises("ActionFailed") <=> resp.result # "OK"

\* a FETCH response holds the body of the mail
HasBody(lines) == \E i \in 1..Len(lines) : Len(lines[i]) = 2 /\ lines[i][1] = 70

\* C10: get_mail_of_uid returns none when the FETCH is answered OK without a
\* body line, raises ActionFailed exactly when the answer is not OK, and
\* returns a Mail, the one of the body, only for OK with a body line.  The OK
\* responses are those in the layout of the client library: no line, the
\* status line alone, or head line, body, closing line and status line.
C10_FetchResult ==
    (Ended("get_mail_of_uid") /\ imap_client # "None") =>
        /\ (resp.result = "OK" /\ ~HasBody(resp.lines)) => ReturnsNone
        /\ Raises("ActionFailed") <=> resp.result = "NO"
        /\ ReturnsMail <=> (resp.result = "OK" /\ HasBody(resp.lines))
        /\ ReturnsMail => outcome.val = parse_byte_mail(resp.lines[2])

C10_Witness ==
    /\ Ended("get_mail_of_uid")
    /\ resp.result = "OK"
    /\ resp.lines = <<StatusLine>>
    /\ ReturnsNone

SendEnded == pc = "done" /\ op \in {"send", "send_mail"}
\* the transport was called, once
Submitted == Len(submitted) = 1
Keys(map) == {e.key : e \in map}

\* C11: when the transport returns (the server refused none, or some but not
\* all, of the recipients), send_mail raises ActionFailed exactly when some
\* recipient was refused, its mapping has the refused recipients as keys,
\* each with the server's code and message for it, and no accepted recipient;
\* with no recipient refused it returns none.
C11_RefusedRecipientsOnly ==
    (SendEnded /\ Submitted /\ smtp_out.kind = "return") =>
        /\ smtp_out.refused # {} =>
              /\ Raises("ActionFailed")
              /\ Keys(failure) = smtp_out.refused
              /\ \A e \in failure : e = RefusalOf(e.key)
              /\ Keys(failure) \cap
                    (Range(Envelope(submitted[1])) \ smtp_out.refused) = {}
        /\ smtp_out.refused = {} => (ReturnsNone /\ failure = {})

C11_Witness ==
    /\ Ended("send_mail")
    /\ Submitted
    /\ Range(Envelope(submitted[1])) = {"a@x", "b@x"}
    /\ smtp_out.refused = {"b@x"}
    /\ Raises("ActionFailed")
    /\ failure = {RefusalOf("b@x")}

ResponseFailures == {"SMTPAuthenticationError", "SMTPSenderRefused"}
ConnectionFailures ==
    {"SMTPConnectError", "SMTPTimeoutError", "SMTPServerDisconnected"}

\* C12: an exception of the transport ends send_mail in one way: all
\* recipients refused, ActionFailed keyed by each refused recipient; another
\* response exception, ActionFailed with the one key of the account's own
\* address and the exception's code and message; another exception of the
\* SMTP library, NetworkError; any other exception, that exception.
C12_ExceptionMapping ==
    (SendEnded /\ Submitted /\ smtp_out.kind = "raise") =>
        /\ smtp_out.exc.cls = "SMTPRecipientsRefused" =>
              /\ Raises("ActionFailed")
              /\ Keys(failure) = smtp_out.refused
              /\ \A e \in failure : e = RefusalOf(e.key)
        /\ smtp_out.exc.cls \in ResponseFailures =>
              /\ Raises("ActionFailed")
              /\ failure = {[key |-> Me, code |-> smtp_out.exc.code,
                             message |-> smtp_out.exc.message]}
        /\ smtp_out.exc.cls \in ConnectionFailures =>
              (Raises("NetworkError") /\ failure = {})
        /\ smtp_out.exc.cls \notin
                ({"SMTPRecipientsRefused"} \cup ResponseFailures
                    \cup ConnectionFailures) =>
              (Raises(smtp_out.exc.cls) /\ failure = {})

C12_Witness ==
    /\ Ended("send_mail")
    /\ Submitted
    /\ smtp_out.kind = "raise"
    /\ smtp_out.exc.cls = "SMTPSenderRefused"
    /\ Raises("ActionFailed")
    /\ Keys(failure) = {Me}

IsMessageEvent(ev) == ev.kind \in {"NewMailMessageEvent", "MessageEvent"}

\* C13: send_mail with a Message and no recipients (None or an empty list)
\* raises ValueError and calls the transport not at all; with an email
\* document it submits that very document, whatever recipients is; send
\* raises RuntimeError, submitting nothing, for an event that is no
\* MessageEvent, and otherwise submits a composed document addressed to the
\* event's sender alone.
C13_ComposeOrPassThrough ==
    /\ (Ended("send_mail") /\ send_args.message.k = "msg"
            /\ Falsy(send_args.recipients)) =>
            (Raises("ValueError") /\ submitted = <<>>)
    /\ (Ended("send_mail") /\ send_args.message.k = "email") =>
            submitted = <<send_args.message.v>>
    /\ (Ended("send") /\ ~IsMessageEvent(send_args.event)) =>
            (Raises("RuntimeError") /\ submitted = <<>>)
    /\ (Ended("send") /\ IsMessageEvent(send_args.event)) =>
            /\ Submitted
            /\ submitted[1].From = S(Me)
            /\ Envelope(submitted[1]) = <<send_args.event.sender>>
            /\ submitted[1].parts =
                    extract_mail_parts(Segs(send_args.message))

C13_Witness ==
    /\ Ended("send_mail")
    /\ send_args.message.k = "email"
    /\ send_args.recipients = None
    /\ submitted = <<Doc(None, None, None, None, <<>>)>>
    /\ ReturnsNone


InMailboxCall == op = "get_mail_of_id_in_mailbox" /\ imap_client = "Ready"

\* the last command of the call was cmd, answered res
LastCmd(cmd, res) ==
    /\ cmds # <<>>
    /\ cmds[Len(cmds)].cmd = cmd
    /\ cmds[Len(cmds)].res = res

\* C14 (as claimed): when the search by Message-ID is answered OK with one or
\* more UIDs, get_mail_of_id_in_mailbox goes on to fetch the first UID of the
\* response, one UID and not the list; answered OK without a UID, the call
\* returns none and no FETCH is issued; answered NO, it raises ActionFailed.
C14_FetchesFirstUid ==
    /\ (InMailboxCall /\ pc = "fetch") =>
            /\ resp.result = "OK"
            /\ UidsOf(resp) # <<>>
            /\ mail_uid = UidsOf(resp)[1]
    /\ (InMailboxCall /\ pc = "done" /\ LastCmd("SEARCH_ID", "OK")) =>
            UidsOf(resp) = <<>> /\ ReturnsNone
    /\ (InMailboxCall /\ pc = "done" /\ LastCmd("SEARCH_ID", "NO")) =>
            Raises("ActionFailed")
    /\ (InMailboxCall /\ LastCmd("FETCH", cmds[Len(cmds)].res)) =>
            cmds[Len(cmds)].arg = mail_uid

\* C15 (as claimed): when get_mail_of_id goes on after INBOX, the mailboxes it
\* tries are Sent-flagged ones of the LIST response, whether \Sent is the
\* only attribute or one of several, and when it returns none it has tried
\* every one of them.
C15_TriesSentFlagged ==
    (Ended("get_mail_of_id") /\ imap_client = "Ready" /\ listed # NotListed) =>
        /\ Range(Tail(Tried)) \subseteq Range(SentFlagged(listed))
        /\ ReturnsNone => Range(Tail(Tried)) = Range(SentFlagged(listed))


\* C16: in login, ID is sent only after LOGIN was answered OK and is the
\* command that follows it; when LOGIN is answered NO, login returns false,
\* raises nothing and sends no ID; login returns true only when LOGIN and ID
\* were both answered OK.
C16_IdFollowsLoginOk ==
    op = "login" =>
        /\ \A i \in 1..Len(cmds) :
              cmds[i].cmd = "ID" =>
                  i = 2 /\ cmds[1].cmd = "LOGIN" /\ cmds[1].res = "OK"
        /\ LastCmd("LOGIN", "OK") => pc = "login_id"
        /\ LastCmd("LOGIN", "NO") =>
              /\ pc = "done" /\ Returns /\ ~outcome.val.b
              /\ Len(cmds) = 1
        /\ (pc = "done" /\ Returns /\ outcome.val.b) =>
              /\ Len(cmds) = 2
              /\ cmds[1].cmd = "LOGIN" /\ cmds[1].res = "OK"
              /\ cmds[2].cmd = "ID" /\ cmds[2].res = "OK"

C16_Witness ==
    /\ Ended("login")
    /\ cmds = <<[cmd |-> "LOGIN", arg |-> <<>>, res |-> "NO"]>>
    /\ Returns /\ ~outcome.val.b


\* the positions of handle_event inside _check_to_me and _check_reply
CorrelationPcs ==
    {"check_to_me", "check_reply", "select", "search_id", "fetch", "list",
     "reselect"}

\* C17 (as claimed): for every event passed to handle_event, the correlation
\* phase has run exactly once when the event is handed to nonebot.
C17_PhaseOncePerEvent ==
    (op = "handle_event" /\ pc \in {"dispatch", "done"}) => checked = 1

\* one step of handle_event on its event
C17_Step ==
    (op = "handle_event" /\ op' = "handle_event") =>
        /\ event' = [event EXCEPT !.to_me = event'.to_me,
                                  !.reply = event'.reply]
        /\ event' # event =>
              /\ pc \in CorrelationPcs
              /\ IsMessageEvent(event)
              /\ dispatched = 0 /\ dispatched' = 0
        /\ checked' # checked =>
              pc = "check_to_me" /\ checked = 0 /\ checked' = 1
        /\ pc' \in {"dispatch", "done"} =>
              checked' = (IF IsMessageEvent(event') THEN 1 ELSE 0)
        /\ dispatched' # dispatched => pc = "dispatch" /\ event' = event

\* C17 (amended): for every MessageEvent passed to handle_event, to_me and
\* reply are the only fields written and are written only inside
\* _check_to_me and _check_reply, before the event is handed to nonebot; the
\* correlation phase has run exactly once when the event is handed on, and
\* nothing is written during or after the hand-over.  For an event that is
\* not a MessageEvent the phase does not run and no field is written.
C17_WritesOnlyInPhase == [][C17_Step]_vars

C17_Witness ==
    /\ Ended("handle_event")
    /\ checked = 1 /\ dispatched = 1
    /\ Me \notin event.recipients_to
    /\ IsMail(event.reply)
    /\ event.to_me
    /\ stage = "sent"


\* C18 (as claimed): an operation whose command ran into the timeout of the
\* client fails with NetworkError.
C18_TimeoutIsNetworkError ==
    ( /\ pc = "done" /\ op \in SessionOps /\ imap_client = "Ready"
      /\ cmds # <<>> /\ cmds[Len(cmds)].res = "RAISE" ) =>
        Raises("NetworkError")

\* the mail the reply resolution of the event gave: the one fetched from
\* INBOX, or the one fetched from a Sent mailbox once INBOX was selected
\* again; none when nothing was found or the resolution raised
Resolved ==
    IF stage = "inbox" /\ LastCmd("FETCH", "OK") /\ HasBody(resp.lines)
    THEN parse_byte_mail(resp.lines[2])
    ELSE IF /\ stage = "sent"
            /\ LastCmd("SELECT", "OK") \/ LastCmd("SELECT", "NO")
    THEN mail
    ELSE None

\* C19: a NewMailMessageEvent (to_me false as constructed) is handed to
\* nonebot with to_me true exactly when the account's address is among
\* recipients_to or the reply resolution gave a mail whose sender is the
\* account; reply is the mail the resolution gave, none when it gave none,
\* and nothing is resolved when in_reply_to is absent.  The mail kept from a
\* Sent mailbox is the one of the body the server sent.
C19_ToMeAtDispatch ==
    (op = "handle_event" /\ event.kind = "NewMailMessageEvent") =>
        /\ (pc = "reselect" /\ LastCmd("FETCH", "OK")) =>
              mail = (IF HasBody(resp.lines)
                      THEN parse_byte_mail(resp.lines[2]) ELSE None)
        /\ pc \in {"dispatch", "done"} =>
              /\ event.to_me <=>
                    \/ Me \in event.recipients_to
                    \/ IsMail(Resolved) /\ Resolved.sender = Me
              /\ event.reply = Resolved
              /\ event.in_reply_to = None =>
                    event.reply = None /\ cmds = <<>>

C19_Witness ==
    /\ Ended("handle_event")
    /\ event.kind = "NewMailMessageEvent"
    /\ Me \in event.recipients_to
    /\ IsMail(event.reply)
    /\ event.reply.sender = Other
    /\ event.to_me


\* C20 (as claimed): in a polling cycle, get_mail_of_uid for an unseen UID
\* issues its FETCH with INBOX selected, whatever the reply resolutions of
\* the events before gave.  Stated for the cycles in which the server
\* refused no SELECT of INBOX, so that the mailbox selected is the code's
\* doing.
C20_FetchOnInbox ==
    (cyc = "fetch" /\ op = "get_mail_of_uid" /\ pc = "fetch" /\ inbox_ok) =>
        selected = INBOX


\* the operations that run get_mail_of_id_in_mailbox
ResolvingOps == {"get_mail_of_id_in_mailbox", "get_mail_of_id", "handle_event"}

\* the searches and fetches of the call follow a SELECT answered OK, and are
\* issued with the requested mailbox selected
SearchAfterSelectOk ==
    op \in ResolvingOps =>
        /\ \A i \in 1..Len(cmds) :
              /\ cmds[i].cmd = "SEARCH_ID" =>
                    /\ i > 1
                    /\ cmds[i - 1].cmd = "SELECT" /\ cmds[i - 1].res = "OK"
              /\ cmds[i].cmd = "FETCH" =>
                    /\ i > 2
                    /\ cmds[i - 1].cmd = "SEARCH_ID" /\ cmds[i - 1].res = "OK"
        /\ pc \in {"search_id", "fetch"} =>
              /\ conn = "SELECTED"
              /\ selected = ServerName(SelectArg(mbox))
              /\ LastCmd(IF pc = "search_id" THEN "SELECT" ELSE "SEARCH_ID", "OK")

\* one step of a call: the SELECT of the mailbox to search, when refused
C22_Step ==
    /\ SearchAfterSelectOk'
    /\ ( /\ op \in ResolvingOps /\ pc = "select"
         /\ cmds' # cmds /\ resp'.result = "NO" ) =>
            /\ Len(cmds') = Len(cmds) + 1
            /\ cmds'[Len(cmds')].cmd = "SELECT"
            /\ IF op = "get_mail_of_id_in_mailbox"
               THEN /\ pc' = "done"
                    /\ outcome' = Return(None)
                    /\ Len(cmds') = 1
               ELSE /\ outcome' = Pending
                    /\ event'.reply = None
                    /\ IF stage = "inbox" THEN pc' = "list"
                       ELSE IF sent_mailbox_list # <<>>
                       THEN /\ pc' = "select"
                            /\ mbox' = Head(sent_mailbox_list)
                            /\ sent_mailbox_list' = Tail(sent_mailbox_list)
                       ELSE pc' = "reselect"

\* C22: in get_mail_of_id_in_mailbox the search by Message-ID, and the fetch
\* after it, are issued only after the SELECT of the requested mailbox was
\* answered OK, with that mailbox selected.  When the server refuses the
\* SELECT, the call returns none, having issued no other command and raising
\* nothing; inside get_mail_of_id the call goes on: from INBOX to LIST, from
\* a mailbox of its Sent list to the SELECT of the next mailbox of that list
\* (the Sent-flagged mailboxes it took from the LIST response), and to the
\* closing SELECT of INBOX when none is left.
C22_SearchOnlyAfterSelectOk == [][C22_Step]_vars

C22_Witness ==
    /\ Ended("get_mail_of_id")
    /\ ReturnsMail
    /\ \E i \in 2..Len(cmds) :
          /\ cmds[i].cmd = "SELECT" /\ cmds[i].res = "NO"
          /\ ServerName(cmds[i].arg) = SentA
          /\ Len(cmds) >= i + 3
          /\ cmds[i + 1].cmd = "SELECT" /\ cmds[i + 1].res = "OK"
          /\ ServerName(cmds[i + 1].arg) = SentB
          /\ cmds[i + 2].cmd = "SEARCH_ID"
          /\ cmds[i + 3].cmd = "FETCH"


\* one step of a task: its search by Message-ID or its fetch is issued
C21_Step ==
    ( /\ turn' = turn
      /\ op \in {"get_mail_of_id", "handle_event"}
      /\ pc \in {"search_id", "fetch"}
      /\ cmds' # cmds ) =>
        /\ conn = "SELECTED"
        /\ selected = ServerName(SelectArg(mbox))

\* C21 (as claimed): with two tasks running get_mail_of_id or handle_event
\* on the same Bot, a task's search by Message-ID and its fetch of the UID
\* found are issued with the mailbox selected that the task's own call
\* selected: the other task's commands do not come between a SELECT and the
\* SEARCH and FETCH that follow it.
C21_SearchInOwnMailbox == [][C21_Step]_vars

=============================================================================
